---- MODULE Spec2Model ----
(***************************************************************************)
(* A model of package errorex (github.com/fkmatsuda/errorex): the          *)
(* process-wide registry of error codes, the typed error value EX built    *)
(* by New, the reflective test Is, and the chain of ErrorConverter nodes.  *)
(*                                                                         *)
(* A call that ends in panic(New(...)) has outcome "panic" and carries the *)
(* EX value built by the nested New; a call that ends in a Go run-time     *)
(* error (a nil dereference, a stack overflow) has outcome "runtime".      *)
(***************************************************************************)
EXTENDS Naturals, Sequences, FiniteSets, TLC

VARIABLES errorCodes, heap, newArgs, next, last

vars == <<errorCodes, heap, newArgs, next, last>>

(***************************************************************************)
(* Bounds of the model.                                                    *)
(***************************************************************************)
\* number of ex objects the program allocates in one run
MaxHeap == 2
\* depth at which a nested New that never returns is cut (stack overflow)
MaxDepth == 2
\* number of converter nodes a dispatch may visit before it is cut
MaxHops == 4

(***************************************************************************)
(* Error codes (errorex.go, const block) and the codes of the callers.     *)
(***************************************************************************)
ErrCodeUnknownError == "errorex.000"
ErrCodeNotRegistered == "errorex.001"
ErrCodeAlreadyRegistered == "errorex.002"
ErrDetailTypeMismatch == "errorex.003"
ErrCodeMockError == "ErrCodeMockError"
TestIsCode == "test.is"
TestFormatCode == "test.format"
TestChanCode == "test.chan"
TestNilCode == "test.nil"

ReservedCodes ==
    {ErrCodeUnknownError, ErrCodeNotRegistered, ErrCodeAlreadyRegistered,
     ErrDetailTypeMismatch}
UserCodes == {ErrCodeMockError, TestIsCode}
Codes == ReservedCodes \cup UserCodes

(***************************************************************************)
(* Detail values.  A detail is its dynamic type (what reflect.TypeOf       *)
(* yields) and the values of its string fields, in declaration order.      *)
(* NilType is the nil reflect.Type that reflect.TypeOf yields for a nil    *)
(* interface value.                                                        *)
(***************************************************************************)
NilType == "<nil>"
UnknownErrorDetailType == "UnknownErrorDetail"
ErrorEXDetailType == "ErrorEXDetail"
ErrorEXDetailTypeMismatchType == "ErrorEXDetailTypeMismatch"
MockErrorDetailType == "MockErrorDetail"
MessageStructType == "struct { Message string }"
LabelStructType == "struct { Label string }"
\* a struct type with a channel field, which encoding/json cannot encode
ChanStructType == "struct { Ch chan int }"

NamedTypes ==
    {UnknownErrorDetailType, ErrorEXDetailType, ErrorEXDetailTypeMismatchType,
     MockErrorDetailType}

NilDetail == [type |-> NilType, f |-> <<>>]
UnknownErrorDetail(detail) == [type |-> UnknownErrorDetailType, f |-> <<detail>>]
ErrorEXDetail(code) == [type |-> ErrorEXDetailType, f |-> <<code>>]
ErrorEXDetailTypeMismatch(expectedType, actualType) ==
    [type |-> ErrorEXDetailTypeMismatchType, f |-> <<expectedType, actualType>>]
MockErrorDetail(detail) == [type |-> MockErrorDetailType, f |-> <<detail>>]
MessageStruct(message) == [type |-> MessageStructType, f |-> <<message>>]
LabelStruct(label) == [type |-> LabelStructType, f |-> <<label>>]
ChanStruct == [type |-> ChanStructType, f |-> <<>>]

\* reflect.TypeOf(detail)
TypeOf(detail) == detail.type

\* reflect.Type.String(): a named type is qualified by its package, an
\* unnamed struct type prints its literal.  Not defined on the nil Type.
TypeString(t) == IF t \in NamedTypes THEN "errorex." \o t ELSE t

(***************************************************************************)
(* Outcomes of a call.                                                     *)
(***************************************************************************)
NoObj == [code |-> "", detail |-> NilDetail]

Return(obj) == [out |-> "return", obj |-> obj]
Runtime == [out |-> "runtime", obj |-> NoObj]
\* panic(New(...)): the argument is evaluated first, so a nested New that
\* does not return decides the outcome.
Panic(inner) == IF inner.out = "return" THEN [out |-> "panic", obj |-> inner.obj]
                ELSE inner

(***************************************************************************)
(* New (errorex.go 132-154).  reg is the map errorCodes.                   *)
(***************************************************************************)
RECURSIVE NewAt(_, _, _, _)
NewAt(reg, code, detail, depth) ==
    IF depth > MaxDepth THEN Runtime
    ELSE IF code \notin DOMAIN reg
    THEN Panic(NewAt(reg, ErrCodeNotRegistered, ErrorEXDetail(code), depth + 1))
    ELSE IF TypeOf(detail) # reg[code].detailType
    THEN IF reg[code].detailType = NilType \/ TypeOf(detail) = NilType
         THEN Runtime
         ELSE Panic(NewAt(reg, ErrDetailTypeMismatch,
                          ErrorEXDetailTypeMismatch(
                              TypeString(reg[code].detailType),
                              TypeString(TypeOf(detail))),
                          depth + 1))
    ELSE Return([code |-> code, detail |-> detail])

\* New without the comparison of the detail type with the registered type
NewNoTypeCheck(reg, code, detail) ==
    IF code \in DOMAIN reg THEN Return([code |-> code, detail |-> detail])
    ELSE NewAt(reg, code, detail, 0)

\* New that builds &ex{code: code} and leaves the detail unset
NewDropsDetail(reg, code, detail) ==
    LET r == NewAt(reg, code, detail, 0)
    IN  IF r.out = "return" THEN Return([code |-> code, detail |-> NilDetail])
        ELSE r

New(reg, code, detail) == NewAt(reg, code, detail, 0)

\* ex.Code, ex.Detail (errorex.go 110-118)
Code(e) == e.code
Detail(e) == e.detail

(***************************************************************************)
(* RegisterErrorCode (errorex.go 95-108): the outcome and the map after    *)
(* the call.                                                               *)
(***************************************************************************)
errorCodeRegistry(code, description, detailType) ==
    [code |-> code, description |-> description, detailType |-> detailType]

\* RegisterErrorCode without the test that prevents repeats
RegisterErrorCodeOverwrite(reg, code, description, detail) ==
    [res |-> Return(NoObj),
     reg |-> [c \in DOMAIN reg \cup {code} |->
                 IF c = code
                 THEN errorCodeRegistry(code, description, TypeOf(detail))
                 ELSE reg[c]]]

\* RegisterErrorCode that stores the entry before it tests for a repeat
RegisterErrorCodeStoreFirst(reg, code, description, detail) ==
    LET stored == [c \in DOMAIN reg \cup {code} |->
                      IF c = code
                      THEN errorCodeRegistry(code, description, TypeOf(detail))
                      ELSE reg[c]]
    IN  IF code \in DOMAIN reg
        THEN [res |-> Panic(NewAt(stored, ErrCodeAlreadyRegistered,
                                  ErrorEXDetail(code), 0)),
              reg |-> stored]
        ELSE [res |-> Return(NoObj), reg |-> stored]

RegisterErrorCode(reg, code, description, detail) ==
    IF code \in DOMAIN reg
    THEN [res |-> Panic(New(reg, ErrCodeAlreadyRegistered, ErrorEXDetail(code))),
          reg |-> reg]
    ELSE [res |-> Return(NoObj),
          reg |-> [c \in DOMAIN reg \cup {code} |->
                      IF c = code
                      THEN errorCodeRegistry(code, description, TypeOf(detail))
                      ELSE reg[c]]]

\* init() (errorex.go 63-69)
EmptyRegistry == [c \in {} |-> errorCodeRegistry("", "", NilType)]
InitRegistry ==
    LET r0 == RegisterErrorCode(EmptyRegistry, ErrCodeUnknownError,
                                "Unknown errorex", UnknownErrorDetail("")).reg
        r1 == RegisterErrorCode(r0, ErrCodeNotRegistered,
                                "Errorex code not registered", ErrorEXDetail("")).reg
        r2 == RegisterErrorCode(r1, ErrCodeAlreadyRegistered,
                                "Errorex code already registered", ErrorEXDetail("")).reg
    IN  RegisterErrorCode(r2, ErrDetailTypeMismatch,
                          "Errorex detail type mismatch",
                          ErrorEXDetailTypeMismatch("", "")).reg

(***************************************************************************)
(* ex.Error (errorex.go 120-127) and json.Marshal of the detail types of   *)
(* the model.  Strings are escaped the way encoding/json escapes them.     *)
(***************************************************************************)
RECURSIVE JSONEscape(_)
JSONEscape(s) ==
    IF Len(s) = 0 THEN ""
    ELSE LET ch == SubSeq(s, 1, 1)
             esc == CASE ch = "\"" -> "\\\""
                      [] ch = "\\" -> "\\\\"
                      [] ch = "<" -> "\\u003c"
                      [] ch = ">" -> "\\u003e"
                      [] ch = "&" -> "\\u0026"
                      [] OTHER -> ch
         IN  esc \o JSONEscape(SubSeq(s, 2, Len(s)))

JSONString(s) == "\"" \o JSONEscape(s) \o "\""

\* the json keys of the fields of a struct type, in declaration order
JSONKeys(t) ==
    CASE t = UnknownErrorDetailType -> <<"detail">>
      [] t = ErrorEXDetailType -> <<"code">>
      [] t = ErrorEXDetailTypeMismatchType -> <<"expectedType", "actualType">>
      [] t = MockErrorDetailType -> <<"detail">>
      [] t = MessageStructType -> <<"Message">>
      [] t = LabelStructType -> <<"Label">>
      [] OTHER -> <<>>

RECURSIVE JSONFields(_, _, _)
JSONFields(keys, f, i) ==
    IF i > Len(keys) THEN ""
    ELSE (IF i > 1 THEN "," ELSE "")
         \o JSONString(keys[i]) \o ":" \o JSONString(f[i])
         \o JSONFields(keys, f, i + 1)

\* json.Marshal(detail): err is the marshalling error, json the encoding.
\* A nil interface value encodes as null; a channel has no encoding, and
\* Marshal returns an UnsupportedTypeError naming the type of the field.
Marshal(detail) ==
    IF TypeOf(detail) = NilType
    THEN [err |-> "", json |-> "null"]
    ELSE IF TypeOf(detail) = ChanStructType
    THEN [err |-> "json: unsupported type: chan int", json |-> ""]
    ELSE [err |-> "",
          json |-> "{" \o JSONFields(JSONKeys(TypeOf(detail)), detail.f, 1) \o "}"]

\* Error that formats the encoding without looking at the marshalling error
ErrorStringNoFallback(e) ==
    "{\"code\": \"" \o e.code \o "\", \"detail\": " \o Marshal(e.detail).json \o "}"

ErrorString(e) ==
    LET m == Marshal(e.detail)
    IN  IF m.err # ""
        THEN "{\"code\": \"" \o e.code
             \o "\", \"detail\": \"failed to marshal detail: " \o m.err \o "\"}"
        ELSE "{\"code\": \"" \o e.code \o "\", \"detail\": " \o m.json \o "}"

(***************************************************************************)
(* Values of type error.  kind tells the dynamic type of the value:        *)
(*   "nil"        the nil interface value                                  *)
(*   "plain"      what fmt.Errorf returns: a pointer without a Code method *)
(*   "ex"         a *ex built by New, the object heap[ref]                 *)
(*   "ptrEX"      a pointer type of a caller that implements EX            *)
(*   "valEX"      a non-pointer type of a caller that implements EX        *)
(*   "ptrCode"    a pointer type of a caller with Code() string, no Detail *)
(*   "ptrIntCode" a pointer type of a caller with Code() int               *)
(***************************************************************************)
NilErr == [kind |-> "nil", ref |-> 0, code |-> "", detail |-> NilDetail, msg |-> ""]
PlainErr(msg) ==
    [kind |-> "plain", ref |-> 0, code |-> "", detail |-> NilDetail, msg |-> msg]
ExRef(i) == [kind |-> "ex", ref |-> i, code |-> "", detail |-> NilDetail, msg |-> ""]
ForeignErr(kind, code, detail) ==
    [kind |-> kind, ref |-> 0, code |-> code, detail |-> detail,
     msg |-> "foreign error"]

\* reflect.ValueOf(err).Kind() == reflect.Ptr
KindIsPtr(err) == err.kind \in {"plain", "ex", "ptrEX", "ptrCode", "ptrIntCode"}
\* reflect.Value.MethodByName("Code").IsValid()
HasCodeMethod(err) == err.kind \in {"ex", "ptrEX", "valEX", "ptrCode", "ptrIntCode"}
\* the kinds of the values that a call of the Code method returns
CodeResultKinds(err) ==
    IF err.kind = "ptrIntCode" THEN <<"int">> ELSE <<"string">>
\* err.(EX) succeeds
ImplementsEX(err) == err.kind \in {"ex", "ptrEX", "valEX"}
\* what err.Code() returns
CodeOf(h, err) == IF err.kind = "ex" THEN Code(h[err.ref]) ELSE err.code
\* what err.Detail() returns
DetailOf(h, err) == IF err.kind = "ex" THEN Detail(h[err.ref]) ELSE err.detail
\* what err.Error() returns
ErrorOf(h, err) == IF err.kind = "ex" THEN ErrorString(h[err.ref]) ELSE err.msg

(***************************************************************************)
(* Is (errorex.go 157-184): the outcome and, when it returns, the result.  *)
(***************************************************************************)
\* Is that tests err for nil before it looks the code up
IsNilFirst(reg, h, err, code) ==
    IF err = NilErr THEN [res |-> Return(NoObj), ret |-> FALSE]
    ELSE IF code \notin DOMAIN reg
    THEN [res |-> Panic(New(reg, ErrCodeNotRegistered, ErrorEXDetail(code))),
          ret |-> FALSE]
    ELSE [res |-> Return(NoObj),
          ret |-> KindIsPtr(err) /\ HasCodeMethod(err)
                  /\ CodeResultKinds(err) = <<"string">> /\ CodeOf(h, err) = code]

Is(reg, h, err, code) ==
    IF code \notin DOMAIN reg
    THEN [res |-> Panic(New(reg, ErrCodeNotRegistered, ErrorEXDetail(code))),
          ret |-> FALSE]
    ELSE [res |-> Return(NoObj),
          ret |-> IF err = NilErr THEN FALSE
                  ELSE IF ~KindIsPtr(err) THEN FALSE
                  ELSE IF ~HasCodeMethod(err) THEN FALSE
                  ELSE IF Len(CodeResultKinds(err)) # 1 THEN FALSE
                  ELSE IF CodeResultKinds(err)[1] # "string" THEN FALSE
                  ELSE CodeOf(h, err) = code]

(***************************************************************************)
(* The converters (error_converter.go, and mockErrorConverter of the test  *)
(* file).  There is one node of each type; nxt maps a node to the node its *)
(* field next refers to, or to NoNode.  The result of a dispatch is either *)
(* an error value that existed before (val) or an object that a nested New *)
(* built (obj, fresh); path lists the nodes whose ConvertError ran.        *)
(***************************************************************************)
EXConverter == "exErrorConverter"
MockConverter == "mockErrorConverter"
UnknownConverter == "unknownErrorConverter"
BaseConverter == "BaseErrorConverter"
Nodes == {EXConverter, MockConverter, UnknownConverter, BaseConverter}
NoNode == "nil"

ConvReturn(val, path) ==
    [out |-> "return", fresh |-> FALSE, obj |-> NoObj, val |-> val, path |-> path]
ConvRuntime(path) ==
    [out |-> "runtime", fresh |-> FALSE, obj |-> NoObj, val |-> NilErr, path |-> path]
ConvNew(r, path) ==
    [out |-> r.out, fresh |-> r.out # "runtime", obj |-> r.obj, val |-> NilErr,
     path |-> path]

RECURSIVE ConvertErrorAt(_, _, _, _, _, _)
\* BaseErrorConverter.ConvertError that returns nil without looking at next
BaseConvertErrorNoDelegate(reg, h, nxt, n, err, path) == ConvReturn(NilErr, path)

\* BaseErrorConverter.ConvertError (error_converter.go 53-58)
BaseConvertError(reg, h, nxt, n, err, path) ==
    IF nxt[n] # NoNode
    THEN ConvertErrorAt(reg, h, nxt, nxt[n], err, path)
    ELSE ConvReturn(NilErr, path)

\* unknownErrorConverter.ConvertError (error_converter.go 64-66)
UnknownConvertError(reg, h, nxt, n, err, path) ==
    IF err = NilErr THEN ConvRuntime(path)
    ELSE ConvNew(New(reg, ErrCodeUnknownError, UnknownErrorDetail(ErrorOf(h, err))),
                 path)

\* exErrorConverter.ConvertError without the type assertion: it always delegates
EXConvertErrorAlwaysDelegates(reg, h, nxt, n, err, path) ==
    BaseConvertError(reg, h, nxt, n, err, path)

\* exErrorConverter.ConvertError (error_converter.go 83-89)
EXConvertError(reg, h, nxt, n, err, path) ==
    IF ImplementsEX(err) THEN ConvReturn(err, path)
    ELSE BaseConvertError(reg, h, nxt, n, err, path)

\* mockErrorConverter.ConvertError (test file 190-195)
MockConvertError(reg, h, nxt, n, err, path) ==
    IF err = NilErr THEN ConvRuntime(path)
    ELSE IF ErrorOf(h, err) # "test error"
    THEN IF nxt[n] = NoNode THEN ConvRuntime(path)
         ELSE ConvertErrorAt(reg, h, nxt, nxt[n], err, path)
    ELSE ConvNew(New(reg, ErrCodeMockError, MockErrorDetail(ErrorOf(h, err))), path)

\* the dynamic dispatch of ErrorConverter.ConvertError on node n
ConvertErrorAt(reg, h, nxt, n, err, path) ==
    IF Len(path) >= MaxHops THEN ConvRuntime(path)
    ELSE LET p == Append(path, n)
         IN  CASE n = BaseConverter -> BaseConvertError(reg, h, nxt, n, err, p)
               [] n = UnknownConverter -> UnknownConvertError(reg, h, nxt, n, err, p)
               [] n = EXConverter -> EXConvertError(reg, h, nxt, n, err, p)
               [] n = MockConverter -> MockConvertError(reg, h, nxt, n, err, p)

ConvertError(reg, h, nxt, n, err) == ConvertErrorAt(reg, h, nxt, n, err, <<>>)

(***************************************************************************)
(* The inputs of the calls.                                                *)
(***************************************************************************)
\* the calls of RegisterErrorCode: <<code, description, exemplar>>
RegisterCalls ==
    {<<TestIsCode, "test description", MessageStruct("")>>,
     <<TestIsCode, "other description", LabelStruct("")>>,
     <<ErrCodeMockError, "test description", MockErrorDetail("")>>,
     <<ErrCodeAlreadyRegistered, "test description", ErrorEXDetail("")>>}
\* the calls of New: <<code, detail>>; NilDetail is a nil interface value
NewCalls ==
    {<<TestIsCode, MessageStruct("test detail")>>,
     <<TestIsCode, MessageStruct("")>>,
     <<TestIsCode, LabelStruct("test detail")>>,
     <<TestIsCode, NilDetail>>,
     <<ErrCodeAlreadyRegistered, ErrorEXDetail(ErrCodeAlreadyRegistered)>>}
\* the codes passed to Is
IsCodes == {TestIsCode, ErrCodeUnknownError}
\* error values that the callers build themselves
ForeignErrs ==
    {ForeignErr("ptrEX", TestIsCode, MessageStruct("test detail")),
     ForeignErr("valEX", TestIsCode, MessageStruct("test detail")),
     ForeignErr("ptrCode", TestIsCode, NilDetail),
     ForeignErr("ptrIntCode", TestIsCode, NilDetail)}
PlainErrs == {PlainErr("test error"), PlainErr("unknown error")}
\* the error values a caller can pass when the heap is h
Errs(h) ==
    {NilErr} \cup PlainErrs \cup ForeignErrs \cup {ExRef(i) : i \in 1..Len(h)}

\* the dispatches <<node, err>>.  A *ex is handed to the pass-through node
\* only; handed to the other nodes it would reach the catch-all node, whose
\* results would then nest message strings without bound.
ExRefs(h) == {ExRef(i) : i \in 1..Len(h)}
ConvertErrs ==
    {NilErr} \cup PlainErrs
        \cup {e \in ForeignErrs : e.kind \in {"ptrEX", "ptrCode"}}
ConvertCalls(h) ==
    (Nodes \X ConvertErrs) \cup ({EXConverter} \X ExRefs(h))

\* the calls of SetNext after the chain is assembled: <<node, successor>>;
\* the bare base node is given the catch-all node as successor, or none
SetNextCalls == {<<BaseConverter, UnknownConverter>>, <<BaseConverter, NoNode>>}

(***************************************************************************)
(* State.                                                                  *)
(*   errorCodes  the map errorCodes (errorex.go 32-34)                     *)
(*   heap        the ex objects returned to the callers so far, in order   *)
(*   newArgs     for each object of heap, the arguments of the call of New *)
(*               a caller made to get it (direct), or a mark that a        *)
(*               converter made it                                         *)
(*   next        the field next of each converter node                     *)
(*   last        the latest call: its arguments and its outcome; val is    *)
(*               the error value returned, thrown the EX value of a panic  *)
(***************************************************************************)
NoCall ==
    [op |-> "none", code |-> "", detail |-> NilDetail, err |-> NilErr,
     node |-> NoNode, out |-> "none", val |-> NilErr, thrown |-> NoObj,
     ret |-> FALSE, str |-> "", path |-> <<>>]

\* the chain of TestEX_Converter with the pass-through node in front, and a
\* bare base node
AssembledChain ==
    [n \in Nodes |->
        CASE n = EXConverter -> MockConverter
          [] n = MockConverter -> UnknownConverter
          [] OTHER -> NoNode]

Init ==
    /\ errorCodes = InitRegistry
    /\ heap = <<>>
    /\ newArgs = <<>>
    /\ next = AssembledChain
    /\ last = NoCall

\* the EX value of a panic
Thrown(res) == IF res.out = "panic" THEN res.obj ELSE NoObj

RegisterErrorCodeCall(code, description, detail) ==
    LET r == RegisterErrorCode(errorCodes, code, description, detail)
    IN  /\ errorCodes' = r.reg
        /\ last' = [NoCall EXCEPT !.op = "RegisterErrorCode", !.code = code,
                                  !.detail = detail, !.str = description,
                                  !.out = r.res.out, !.thrown = Thrown(r.res)]
        /\ UNCHANGED <<heap, newArgs, next>>

NewCall(code, detail) ==
    LET r == New(errorCodes, code, detail)
    IN  /\ r.out = "return" => Len(heap) < MaxHeap
        /\ heap' = IF r.out = "return" THEN Append(heap, r.obj) ELSE heap
        /\ newArgs' = IF r.out = "return"
                      THEN Append(newArgs, [direct |-> TRUE, code |-> code,
                                            detail |-> detail])
                      ELSE newArgs
        /\ last' = [NoCall EXCEPT !.op = "New", !.code = code, !.detail = detail,
                                  !.out = r.out, !.thrown = Thrown(r),
                                  !.val = IF r.out = "return"
                                          THEN ExRef(Len(heap) + 1) ELSE NilErr]
        /\ UNCHANGED <<errorCodes, next>>

IsCall(err, code) ==
    LET r == Is(errorCodes, heap, err, code)
    IN  /\ last' = [NoCall EXCEPT !.op = "Is", !.code = code, !.err = err,
                                  !.out = r.res.out, !.ret = r.ret,
                                  !.thrown = Thrown(r.res)]
        /\ UNCHANGED <<errorCodes, heap, newArgs, next>>

ConvertErrorCall(n, err) ==
    LET r == ConvertError(errorCodes, heap, next, n, err)
        made == r.fresh /\ r.out = "return"
    IN  /\ made => Len(heap) < MaxHeap
        /\ heap' = IF made THEN Append(heap, r.obj) ELSE heap
        /\ newArgs' = IF made
                      THEN Append(newArgs, [direct |-> FALSE, code |-> "",
                                            detail |-> NilDetail])
                      ELSE newArgs
        /\ last' = [NoCall EXCEPT !.op = "ConvertError", !.node = n, !.err = err,
                                  !.out = r.out, !.path = r.path,
                                  !.thrown = IF r.out = "panic" THEN r.obj ELSE NoObj,
                                  !.val = IF made THEN ExRef(Len(heap) + 1)
                                          ELSE r.val]
        /\ UNCHANGED <<errorCodes, next>>

\* e.Code(), e.Detail() and e.Error() on the object heap[i]
CodeCall(i) ==
    /\ last' = [NoCall EXCEPT !.op = "Code", !.err = ExRef(i), !.out = "return",
                              !.str = Code(heap[i])]
    /\ UNCHANGED <<errorCodes, heap, newArgs, next>>

DetailCall(i) ==
    /\ last' = [NoCall EXCEPT !.op = "Detail", !.err = ExRef(i), !.out = "return",
                              !.detail = Detail(heap[i])]
    /\ UNCHANGED <<errorCodes, heap, newArgs, next>>

ErrorCall(i) ==
    /\ last' = [NoCall EXCEPT !.op = "Error", !.err = ExRef(i), !.out = "return",
                              !.str = ErrorString(heap[i])]
    /\ UNCHANGED <<errorCodes, heap, newArgs, next>>

\* BaseErrorConverter.SetNext (error_converter.go 47-49), promoted to every node
SetNextCall(n, m) ==
    /\ next' = [next EXCEPT ![n] = m]
    /\ last' = [NoCall EXCEPT !.op = "SetNext", !.node = n, !.out = "return"]
    /\ UNCHANGED <<errorCodes, heap, newArgs>>

Register == \E c \in RegisterCalls : RegisterErrorCodeCall(c[1], c[2], c[3])
Construct == \E c \in NewCalls : NewCall(c[1], c[2])
Test == \E err \in Errs(heap), code \in IsCodes : IsCall(err, code)
Convert == \E c \in ConvertCalls(heap) : ConvertErrorCall(c[1], c[2])
Access == \E i \in 1..Len(heap) : CodeCall(i) \/ DetailCall(i) \/ ErrorCall(i)

Link == \E c \in SetNextCalls : SetNextCall(c[1], c[2])

Next == Register \/ Construct \/ Test \/ Convert \/ Access \/ Link

Spec == Init /\ [][Next]_vars

(***************************************************************************)
(* The rendering of errors: codes are registered for a struct of strings,  *)
(* for a struct with a channel and for the nil detail; errors are built    *)
(* from them and their methods are called.                                 *)
(***************************************************************************)
FormatRegisterCalls ==
    {<<TestFormatCode, "test description", MessageStruct("")>>,
     <<TestChanCode, "test description", ChanStruct>>,
     <<TestNilCode, "test description", NilDetail>>}
FormatNewCalls ==
    {<<TestFormatCode, MessageStruct("test detail")>>,
     <<TestFormatCode, MessageStruct("a<b \"c\"")>>,
     <<TestChanCode, ChanStruct>>,
     <<TestNilCode, NilDetail>>,
     <<TestFormatCode, ChanStruct>>}

RegisterFormat == \E c \in FormatRegisterCalls : RegisterErrorCodeCall(c[1], c[2], c[3])
ConstructFormat == \E c \in FormatNewCalls : NewCall(c[1], c[2])

NextError == RegisterFormat \/ ConstructFormat \/ Access

SpecError == Init /\ [][NextError]_vars

(***************************************************************************)
(* The linking of chains: the converters of the package are constructed    *)
(* with no successor, SetNext links any of them to any other or to none,   *)
(* and errors are dispatched on any of them.                               *)
(***************************************************************************)
LibraryNodes == {EXConverter, UnknownConverter, BaseConverter}
Unlinked == [n \in Nodes |-> NoNode]
ChainLinks == LibraryNodes \X (LibraryNodes \cup {NoNode})
ChainErrs ==
    {NilErr, PlainErr("test error"),
     ForeignErr("ptrEX", TestIsCode, MessageStruct("test detail"))}

InitChain ==
    /\ errorCodes = InitRegistry
    /\ heap = <<>>
    /\ newArgs = <<>>
    /\ next = Unlinked
    /\ last = NoCall

LinkChain == \E c \in ChainLinks : SetNextCall(c[1], c[2])
Dispatch == \E n \in LibraryNodes, err \in ChainErrs : ConvertErrorCall(n, err)

NextChain == LinkChain \/ Dispatch

SpecChain == InitChain /\ [][NextChain]_vars

(***************************************************************************)
(* What the claims speak of.                                               *)
(***************************************************************************)
Registered(code) == code \in DOMAIN errorCodes
\* an EX value is well formed: its code is registered and its detail has the
\* registered shape
WellFormed(code, detail) ==
    /\ Registered(code)
    /\ TypeOf(detail) = errorCodes[code].detailType
Objects == 1..Len(heap)
IsHeapRef(v) == v.kind = "ex" /\ v.ref \in Objects

(***************************************************************************)
(* C1.  As stated: every EX value the program holds, returned by New or    *)
(* returned by a converter chain, has a registered code and a detail of    *)
(* the shape registered for that code.                                     *)
(***************************************************************************)
C1_AsStated ==
    /\ \A i \in Objects : WellFormed(Code(heap[i]), Detail(heap[i]))
    /\ (last.op \in {"New", "ConvertError"} /\ last.out = "return"
            /\ last.val # NilErr)
        => WellFormed(CodeOf(heap, last.val), DetailOf(heap, last.val))

(***************************************************************************)
(* C1, amended.  Every EX value built by New (returned by New, built by a  *)
(* converter through New, or raised by a panic) has a registered code and  *)
(* a detail of the registered shape; a converter returns nil, such a       *)
(* value, or the very error it was given.                                  *)
(***************************************************************************)
C1_BuiltByNewWellFormed ==
    /\ \A i \in Objects : WellFormed(Code(heap[i]), Detail(heap[i]))
    /\ last.out = "panic" => WellFormed(Code(last.thrown), Detail(last.thrown))
    /\ (last.op = "New" /\ last.out = "return") => IsHeapRef(last.val)
    /\ (last.op = "ConvertError" /\ last.out = "return")
        => \/ last.val = NilErr
           \/ last.val = last.err
           \/ IsHeapRef(last.val)

\* a converter has built the second object after New built the first one
C1_Witness ==
    /\ Len(heap) = 2
    /\ newArgs[1].direct /\ ~newArgs[2].direct
    /\ Code(heap[1]) = TestIsCode
    /\ last.op = "ConvertError" /\ last.out = "return" /\ last.val = ExRef(2)

(***************************************************************************)
(* C2.  RegisterErrorCode on a code that is already registered does not    *)
(* return: it panics with errorex.002 whose detail carries the code, and   *)
(* the registry is left as it was, whatever description and exemplar are   *)
(* passed.                                                                 *)
(***************************************************************************)
C2_DuplicateRejected ==
    [][(last'.op = "RegisterErrorCode" /\ Registered(last'.code))
        => /\ last'.out = "panic"
           /\ Code(last'.thrown) = ErrCodeAlreadyRegistered
           /\ Detail(last'.thrown) = ErrorEXDetail(last'.code)
           /\ errorCodes' = errorCodes]_vars

\* a user code is registered again with another description and exemplar
C2_Witness ==
    /\ last.op = "RegisterErrorCode" /\ last.out = "panic"
    /\ last.code = TestIsCode
    /\ last.str # errorCodes[TestIsCode].description
    /\ TypeOf(last.detail) # errorCodes[TestIsCode].detailType

(***************************************************************************)
(* C3.  For a code that is not registered, New panics with errorex.001     *)
(* carrying the code for every detail, and Is panics with errorex.001      *)
(* carrying the code for every err (nil and plain errors included);        *)
(* neither returns a value.                                                *)
(***************************************************************************)
C3_UnregisteredRaises ==
    (last.op \in {"New", "Is"} /\ ~Registered(last.code))
        => /\ last.out = "panic"
           /\ Code(last.thrown) = ErrCodeNotRegistered
           /\ Detail(last.thrown) = ErrorEXDetail(last.code)
           /\ last.val = NilErr

\* Is was called with a nil err and a code that is not registered
C3_Witness ==
    /\ last.op = "Is" /\ last.err = NilErr /\ ~Registered(last.code)
    /\ last.out = "panic"

(***************************************************************************)
(* C4.  For a registered code with shape S and every detail d, a nil       *)
(* detail included, New returns an EX exactly when the shape of d is S,    *)
(* and otherwise panics with errorex.003 whose detail carries expected S   *)
(* and actual shape(d).                                                    *)
(***************************************************************************)
C4_AsStated ==
    (last.op = "New" /\ Registered(last.code))
        => LET S == errorCodes[last.code].detailType
           IN  /\ last.out = "return" <=> TypeOf(last.detail) = S
               /\ TypeOf(last.detail) # S
                    => /\ last.out = "panic"
                       /\ Code(last.thrown) = ErrDetailTypeMismatch
                       /\ Detail(last.thrown) =
                            ErrorEXDetailTypeMismatch(
                                TypeString(S), TypeString(TypeOf(last.detail)))

(***************************************************************************)
(* C5.  The registry is append-only: no call removes an entry or changes   *)
(* its description or detail shape; the registry changes only by a         *)
(* RegisterErrorCode that returns, which adds exactly the entry of its     *)
(* arguments.                                                              *)
(***************************************************************************)
C5_AppendOnly ==
    [][/\ \A c \in DOMAIN errorCodes :
            c \in DOMAIN errorCodes' /\ errorCodes'[c] = errorCodes[c]
       /\ errorCodes' # errorCodes
            => /\ last'.op = "RegisterErrorCode" /\ last'.out = "return"
               /\ last'.code \notin DOMAIN errorCodes
               /\ DOMAIN errorCodes' = DOMAIN errorCodes \cup {last'.code}
               /\ errorCodes'[last'.code] =
                    errorCodeRegistry(last'.code, last'.str, TypeOf(last'.detail))
       /\ (last'.op = "RegisterErrorCode" /\ last'.out = "return")
            => Cardinality(DOMAIN errorCodes') = Cardinality(DOMAIN errorCodes) + 1
      ]_vars

\* both user codes are registered, objects exist, and a later call was made
C5_Witness ==
    /\ UserCodes \subseteq DOMAIN errorCodes
    /\ Len(heap) = 2
    /\ last.op = "ConvertError"

(***************************************************************************)
(* The Typed Error capability of section 4.1 of the specification: a       *)
(* value that is not nil and offers a Code() accessor returning a string.  *)
(***************************************************************************)
HasCapability(err) ==
    /\ err # NilErr
    /\ HasCodeMethod(err)
    /\ CodeResultKinds(err) = <<"string">>

(***************************************************************************)
(* C6.  For a registered code c: Is(e, e.Code()) is true for every Typed   *)
(* Error e, Is(e, c) is false for every Typed Error e whose code is not c, *)
(* Is(nil, c) is false, and Is(p, c) is false for every error p that is    *)
(* not a Typed Error.                                                      *)
(***************************************************************************)
C6_AsStated ==
    (last.op = "Is" /\ Registered(last.code))
        => /\ last.out = "return"
           /\ (HasCapability(last.err) /\ CodeOf(heap, last.err) = last.code)
                => last.ret = TRUE
           /\ (HasCapability(last.err) /\ CodeOf(heap, last.err) # last.code)
                => last.ret = FALSE
           /\ last.err = NilErr => last.ret = FALSE
           /\ (last.err # NilErr /\ ~HasCapability(last.err)) => last.ret = FALSE

(***************************************************************************)
(* C7.  Round trip: an EX returned by New(c, d) has Code() = c and         *)
(* Detail() = d, at every later point, whatever calls follow.              *)
(***************************************************************************)
C7_RoundTrip ==
    /\ \A i \in Objects :
          newArgs[i].direct
            => /\ Code(heap[i]) = newArgs[i].code
               /\ Detail(heap[i]) = newArgs[i].detail
    /\ (last.op = "New" /\ last.out = "return")
        => /\ IsHeapRef(last.val)
           /\ newArgs[last.val.ref].direct
           /\ newArgs[last.val.ref].code = last.code
           /\ newArgs[last.val.ref].detail = last.detail
    /\ (last.op = "Code" /\ newArgs[last.err.ref].direct)
        => last.str = newArgs[last.err.ref].code
    /\ (last.op = "Detail" /\ newArgs[last.err.ref].direct)
        => last.detail = newArgs[last.err.ref].detail

\* Detail() is read from the first object after New has built a second one
C7_Witness ==
    /\ Len(heap) = 2
    /\ newArgs[1].direct /\ newArgs[2].direct
    /\ newArgs[1].detail = MessageStruct("test detail")
    /\ last.op = "Detail" /\ last.err = ExRef(1)

(***************************************************************************)
(* C8.  The chain pass-through -> matcher -> catch-all, given an error     *)
(* that is not nil: an EX is returned as it is; otherwise an error the     *)
(* matcher recognises yields what the matcher yields for it; otherwise the *)
(* result is an EX with code errorex.000 whose detail holds the message of *)
(* the input.  The chain never returns nil.                                *)
(***************************************************************************)
\* the matcher recognises the error (mockErrorConverter, test file 191)
Recognised(err) == ErrorOf(heap, err) = "test error"

\* the three nodes are linked pass-through -> matcher -> catch-all
ChainLinked ==
    next[EXConverter] = MockConverter /\ next[MockConverter] = UnknownConverter

C9_AsStated ==
    (last.op = "ConvertError" /\ last.node = UnknownConverter)
        => /\ last.out = "return"
           /\ IsHeapRef(last.val)
           /\ Code(heap[last.val.ref]) = ErrCodeUnknownError
           /\ Detail(heap[last.val.ref]) = UnknownErrorDetail(ErrorOf(heap, last.err))

(***************************************************************************)
(* C10.  Is is a capability test: for a registered code c and every value  *)
(* v that is not nil and offers Code() string, of pointer kind or not,     *)
(* Is(v, c) is true exactly when v.Code() = c.                             *)
(***************************************************************************)
C10_AsStated ==
    (last.op = "Is" /\ Registered(last.code) /\ HasCapability(last.err))
        => (last.ret <=> CodeOf(heap, last.err) = last.code)

(***************************************************************************)
(* C11.  Error() never raises.  Called on a Typed Error it returns, for a  *)
(* detail that serialises, the string {"code": "<code>", "detail": <json>} *)
(* made of the stored code and the JSON of the stored detail, and for a    *)
(* detail that does not serialise the string {"code": "<code>", "detail":  *)
(* "failed to marshal detail: <cause>"}; the call leaves the errors and    *)
(* the registry as they were.  The four errors that are built are also     *)
(* compared with the strings the Go program prints for them.               *)
(***************************************************************************)
ExpectedError(e) ==
    CASE e = [code |-> TestFormatCode, detail |-> MessageStruct("test detail")] ->
           "{\"code\": \"test.format\", \"detail\": {\"Message\":\"test detail\"}}"
      [] e = [code |-> TestFormatCode, detail |-> MessageStruct("a<b \"c\"")] ->
           "{\"code\": \"test.format\", \"detail\": {\"Message\":\"a\\u003cb \\\"c\\\"\"}}"
      [] e = [code |-> TestNilCode, detail |-> NilDetail] ->
           "{\"code\": \"test.nil\", \"detail\": null}"
      [] e = [code |-> TestChanCode, detail |-> ChanStruct] ->
           "{\"code\": \"test.chan\", \"detail\": \"failed to marshal detail: "
               \o "json: unsupported type: chan int\"}"

RECURSIVE Walk(_, _, _)
Walk(nxt, n, k) ==
    IF n = NoNode \/ k = 0 THEN <<>>
    ELSE <<n>> \o Walk(nxt, nxt[n], k - 1)

RECURSIVE Ends(_, _, _)
Ends(nxt, n, k) == n = NoNode \/ (k > 0 /\ Ends(nxt, nxt[n], k - 1))
\* the chain that starts at node n is finite
Acyclic(nxt, n) == Ends(nxt, n, Cardinality(Nodes))

\* node n resolves the error: the catch-all node always, the pass-through
\* node when the error is an EX, the base node never
Resolves(n, err) ==
    \/ n = UnknownConverter
    \/ n = EXConverter /\ ImplementsEX(err)

\* the latest call has the outcome r
SameResult(r) ==
    /\ last.out = r.out
    /\ IF r.fresh /\ r.out = "return"
       THEN IsHeapRef(last.val) /\ heap[last.val.ref] = r.obj
       ELSE last.val = r.val

C12_DispatchOrder ==
    (last.op = "ConvertError" /\ Acyclic(next, last.node)) =>
        LET w == Walk(next, last.node, Cardinality(Nodes))
            R == {i \in 1..Len(w) : Resolves(w[i], last.err)}
        IN  /\ (last.err # NilErr /\ R = {}) =>
                  /\ last.out = "return"
                  /\ last.val = NilErr
                  /\ last.path = w
            /\ (last.err # NilErr /\ R # {}) =>
                  LET f == CHOOSE i \in R : \A j \in R : i <= j
                  IN  /\ last.path = SubSeq(w, 1, f)
                      /\ last.out = "return"
                      /\ last.val # NilErr
                      /\ SameResult(ConvertError(errorCodes, heap, Unlinked,
                                                 w[f], last.err))
            /\ (last.node = BaseConverter /\ next[BaseConverter] = NoNode) =>
                  /\ last.out = "return"
                  /\ last.val = NilErr
            /\ (last.node = BaseConverter /\ next[BaseConverter] # NoNode) =>
                  SameResult(ConvertError(errorCodes, heap, next,
                                          next[BaseConverter], last.err))

\* a chain of three nodes whose second node resolved the error: the third
\* node was not run
C12_Witness ==
    /\ last.op = "ConvertError"
    /\ last.node = BaseConverter
    /\ Acyclic(next, last.node)
    /\ Len(Walk(next, last.node, Cardinality(Nodes))) = 3
    /\ last.path = <<BaseConverter, EXConverter>>
    /\ last.out = "return"
    /\ last.val = last.err
    /\ last.err # NilErr

(***************************************************************************)
(* C13.  As stated: raising a fatal condition never fails in another way.  *)
(* In every reachable state the reserved codes errorex.001, errorex.002    *)
(* and errorex.003 are registered with the shape of the payload that New,  *)
(* Is and RegisterErrorCode pass for them, so the nested New that builds   *)
(* the payload returns at once, and a call of New, Is or RegisterErrorCode *)
(* that does not return raises a Typed Error with one of these codes.      *)
(***************************************************************************)
FatalCodes == {ErrCodeNotRegistered, ErrCodeAlreadyRegistered, ErrDetailTypeMismatch}

\* the payload the code passes with a fatal code
FatalPayload(code) ==
    IF code = ErrDetailTypeMismatch
    THEN ErrorEXDetailTypeMismatch(TypeString(MessageStructType),
                                   TypeString(LabelStructType))
    ELSE ErrorEXDetail(TestIsCode)

C13_AsStated ==
    /\ \A c \in FatalCodes :
          /\ WellFormed(c, FatalPayload(c))
          /\ New(errorCodes, c, FatalPayload(c)) =
                Return([code |-> c, detail |-> FatalPayload(c)])
    /\ (last.op \in {"New", "Is", "RegisterErrorCode"} /\ last.out # "return") =>
          /\ last.out = "panic"
          /\ last.thrown.code \in FatalCodes
          /\ WellFormed(last.thrown.code, last.thrown.detail)

====
